---- MODULE Spec2Model ----
(***************************************************************************)
(* GERG-Type-Validation: the validation engine (TypeValidationEngine), its *)
(* validator registry, the configuration record (ValidationConfig) and the *)
(* scoped configuration override (ValidationContext).                      *)
(*                                                                         *)
(* Configuration objects live on a heap (a sequence; the index is the      *)
(* object's identity) because the engine and the contexts hold references  *)
(* to them.  Python values are records [t, n, nan, keys]: the runtime type *)
(* name, the number (for int/float) or the length (for sized values), the  *)
(* float NaN flag, and the set of keys k for which `k in value` is true.   *)
(***************************************************************************)
EXTENDS Integers, Sequences, FiniteSets, TLC

VARIABLES
    heap,             \* ValidationConfig objects, by identity
    engineConfig,     \* TypeValidationEngine.config (a heap index)
    validatorsConfig, \* BaseValidator.config of the four registered validators
    ctx,              \* the ValidationContext objects
    stack,            \* the with-blocks currently open, innermost last
    hist,             \* history: what each context displaced and installed
    fs,               \* the filesystem: path name -> "absent" / "file" / "dir"
    pending,          \* an exception is propagating out of the last call
    last,             \* the last engine call and its outcome
    batch             \* a BatchValidator on the engine: its errors, and the
                      \* history of its add_validation calls since clear_errors

vars == <<heap, engineConfig, validatorsConfig, ctx, stack, hist, fs, pending, last, batch>>

----------------------------------------------------------------------------
(* Bounds *)

MaxContexts == 2
MaxConfigs == 3
MaxNum == 2
MaxLen == 2
MaxSuffixes == 2
MaxBatch == 2
MaxFields == 2
MaxParams == 2
MaxFrames == 3

CtxIds == 1..MaxContexts

----------------------------------------------------------------------------
(* ValidationConfig *)

ConfigFields == {"strict_mode", "auto_extract_names", "raise_on_failure", "custom_error_class"}

\* custom_error_class: any exception class - the library's own, one of the
\* caller's, or a built-in one.
ErrorClasses == {"TypeAssertionError", "CustomError", "ValueError"}

\* The classes an exception class derives from.
ExcMro(cls) ==
    IF cls = "TypeAssertionError" THEN {cls, "AssertionError", "Exception"} ELSE {cls, "Exception"}

ValidationConfig(strict_mode, auto_extract_names, raise_on_failure, custom_error_class) ==
    [strict_mode |-> strict_mode,
     auto_extract_names |-> auto_extract_names,
     raise_on_failure |-> raise_on_failure,
     custom_error_class |-> custom_error_class]

DefaultConfig == ValidationConfig(TRUE, TRUE, TRUE, "TypeAssertionError")

create_validation_engine(strict_mode, auto_extract_names, raise_on_failure, custom_error_class) ==
    ValidationConfig(strict_mode, auto_extract_names, raise_on_failure, custom_error_class)

create_lenient_engine == create_validation_engine(FALSE, TRUE, FALSE, "TypeAssertionError")

\* The configurations an engine is constructed with.
EngineConfigs ==
    {DefaultConfig,
     create_lenient_engine,
     create_validation_engine(TRUE, FALSE, TRUE, "ValueError")}

----------------------------------------------------------------------------
(* Python values *)

Keys == {"a", "b"}

Value(t, n, nan, keys, blank, path) ==
    [t |-> t, n |-> n, nan |-> nan, keys |-> keys, blank |-> blank, path |-> path]

NoneV == Value("NoneType", 0, FALSE, {}, FALSE, "")
IntV(k) == Value("int", k, FALSE, {}, FALSE, "")
BoolV(k) == Value("bool", k, FALSE, {}, FALSE, "")
FloatV(k) == Value("float", k, FALSE, {}, FALSE, "")
NaN == Value("float", 0, TRUE, {}, FALSE, "")
\* A str of length n: its text p, and whether it is empty after strip().
StrV(n, blank, p) == Value("str", n, FALSE, {}, blank, p)
BytesV(n, p) == Value("bytes", n, FALSE, {}, n = 0, p)
ListV(n) == Value("list", n, FALSE, {}, FALSE, "")
TupleV(n) == Value("tuple", n, FALSE, {}, FALSE, "")
DictV(ks) == Value("dict", Cardinality(ks), FALSE, ks, FALSE, "")
PathV(p) == Value("Path", 0, FALSE, {}, FALSE, p)

\* The classes a value's type derives from (type(value).__mro__).
Mro(t) == IF t = "bool" THEN {"bool", "int", "object"} ELSE {t, "object"}

\* isinstance(value, t) for a class t
IsInstance(value, t) == t \in Mro(value.t)

IsNumber(value) == IsInstance(value, "int") \/ IsInstance(value, "float")

\* Types with __len__
Sized == {"str", "bytes", "list", "tuple", "dict"}

\* a <= b in place of a < b
LtOrEq(a, b) == ~a.nan /\ ~b.nan /\ a.n <= b.n

\* a < b on Python numbers (False whenever a NaN is involved)
Lt(a, b) == ~a.nan /\ ~b.nan /\ a.n < b.n

\* a > b on Python numbers
Gt(a, b) == ~a.nan /\ ~b.nan /\ a.n > b.n

\* expected_type: a class, a list of classes, a tuple of classes, or None.
Single(t) == [form |-> "class", types |-> <<t>>]
ListOf(ts) == [form |-> "list", types |-> ts]
TupleOf(ts) == [form |-> "tuple", types |-> ts]
NoType == [form |-> "none", types |-> <<>>]

\* required_keys: None, one str, or a list of str.
NoKeys == [form |-> "none", keys |-> <<>>]
OneKey(k) == [form |-> "str", keys |-> <<k>>]
KeyList(ks) == [form |-> "list", keys |-> ks]

\* msg: None or a str
NoMsg == [given |-> FALSE, text |-> ""]
Msg(text) == [given |-> TRUE, text |-> text]

\* Python truthiness of msg, as `msg or ...` tests it.
Truthy(msg) == msg.given /\ msg.text # ""

\* The keyword arguments a validator receives.
NoKw ==
    [expected_type |-> NoType, min_val |-> NoneV, max_val |-> NoneV,
     min_len |-> NoneV, max_len |-> NoneV, length |-> NoneV,
     required_keys |-> NoKeys,
     must_exist |-> NoneV, must_be_file |-> FALSE, must_be_dir |-> FALSE,
     create_parents |-> FALSE]

----------------------------------------------------------------------------
(* Validators: validate returns [exc, ok]; exc names the built-in error   *)
(* the call raised, "" when it returned ok.                               *)

Ok(b) == [exc |-> "", ok |-> b]
Exc(cls) == [exc |-> cls, ok |-> FALSE]

\* all(...) in place of any(...)
AllInstance(value, types) == \A i \in DOMAIN types : IsInstance(value, types[i])

\* any(isinstance(value, t) for t in expected_type)
AnyInstance(value, types) == \E i \in DOMAIN types : IsInstance(value, types[i])

\* A missing expected_type treated as an invalid value
MissingExpectedTypeInvalid(kw) == Ok(FALSE)

\* raise ValueError("expected_type must be provided")
MissingExpectedType(kw) == Exc("ValueError")

TypeValidator_validate(value, kw) ==
    IF kw.expected_type.form = "none" THEN MissingExpectedType(kw)
    ELSE IF kw.expected_type.form = "list" THEN Ok(AnyInstance(value, kw.expected_type.types))
    ELSE Ok(AnyInstance(value, kw.expected_type.types))

\* value < min_val or value > max_val raises TypeError for an unorderable value
Comparable(value) == IsNumber(value)

BelowMin(value, min_val) == min_val # NoneV /\ Lt(value, min_val)

AboveMax(value, max_val) == max_val # NoneV /\ Gt(value, max_val)

RangeValidator_validate(value, kw) ==
    IF kw.min_val # NoneV /\ ~Comparable(value) THEN Exc("TypeError")
    ELSE IF BelowMin(value, kw.min_val) THEN Ok(FALSE)
    ELSE IF kw.max_val # NoneV /\ ~Comparable(value) THEN Exc("TypeError")
    ELSE IF AboveMax(value, kw.max_val) THEN Ok(FALSE)
    ELSE Ok(TRUE)

\* The TypeError of len(value) left to propagate
LenTypeErrorPropagates(value) == Exc("TypeError")

\* except TypeError: return False
LenTypeError(value) == Ok(FALSE)

LengthValidator_validate(value, kw) ==
    IF value.t \notin Sized THEN LenTypeError(value)
    ELSE IF kw.length # NoneV /\ value.n # kw.length.n THEN Ok(FALSE)
    ELSE IF kw.min_len # NoneV /\ value.n < kw.min_len.n THEN Ok(FALSE)
    ELSE IF kw.max_len # NoneV /\ value.n > kw.max_len.n THEN Ok(FALSE)
    ELSE Ok(TRUE)

\* Path.exists / is_file / is_dir on the filesystem f
Kind(f, p) == IF p = "." THEN "dir" ELSE IF p \in DOMAIN f THEN f[p] ELSE "absent"
Exists(f, p) == Kind(f, p) # "absent"

\* str(value) of a str or bytes, as a path name
StrOf(value) == IF value.t = "bytes" THEN "b'" \o value.path \o "'" ELSE value.path

\* Path(...) accepts a Path, a str or (through str()) bytes
Convertible(value) == value.t \in {"Path", "str", "bytes"}

ToPath(value) == IF value.t = "Path" THEN value ELSE PathV(StrOf(value))

\* must_exist is False with the test for existence dropped
MustNotExistIgnored(f, p, must_exist) == FALSE

\* must_exist is False and path_obj.exists()
MustNotExistViolated(f, p, must_exist) == must_exist = BoolV(0) /\ Exists(f, p)

\* PathValidator.validate: an unconvertible or empty value is not valid;
\* the engine hands it a Path object.
PathValidator_validate(f, value, kw) ==
    LET p == ToPath(value).path IN
    IF ~Convertible(value) THEN Ok(FALSE)
    ELSE IF value.t \in {"str", "bytes"} /\ value.blank THEN Ok(FALSE)
    ELSE IF kw.must_exist = BoolV(1) /\ ~Exists(f, p) THEN Ok(FALSE)
    ELSE IF MustNotExistViolated(f, p, kw.must_exist) THEN Ok(FALSE)
    ELSE IF kw.must_be_file /\ (~Exists(f, p) \/ Kind(f, p) # "file") THEN Ok(FALSE)
    ELSE IF kw.must_be_dir /\ (~Exists(f, p) \/ Kind(f, p) # "dir") THEN Ok(FALSE)
    ELSE Ok(TRUE)

\* self.validators[validator_name].validate(value, **kwargs)
Validate(f, validator_name, value, kw) ==
    CASE validator_name = "type" -> TypeValidator_validate(value, kw)
      [] validator_name = "range" -> RangeValidator_validate(value, kw)
      [] validator_name = "length" -> LengthValidator_validate(value, kw)
      [] validator_name = "path" -> PathValidator_validate(f, value, kw)

\* Error messages: the caller's text, or the template a validator renders
\* with the subject name (and, for missing keys, the keys it lists).
Message(custom, text, tmpl, name, keys) ==
    [custom |-> custom, text |-> text, tmpl |-> tmpl, name |-> name, keys |-> keys]

NoMessage == Message(FALSE, "", "", "", <<>>)
Custom(msg) == Message(TRUE, msg.text, "", "", <<>>)
Generated(tmpl, name) == Message(FALSE, "", tmpl, name, <<>>)

TypeValidator_get_error_message(value, var_name, kw) ==
    IF kw.expected_type.form = "list"
    THEN Generated("must be one of types", var_name)
    ELSE Generated("must be of type", var_name)

RangeValidator_get_error_message(value, var_name, kw) ==
    IF BelowMin(value, kw.min_val) THEN Generated("must be >=", var_name)
    ELSE IF AboveMax(value, kw.max_val) THEN Generated("must be <=", var_name)
    ELSE Generated("is out of valid range", var_name)

\* The minimum reported before the exact length
LengthValidator_get_error_message_min_first(value, var_name, kw) ==
    IF value.t \notin Sized THEN Generated("must have a length", var_name)
    ELSE IF kw.min_len # NoneV /\ value.n < kw.min_len.n THEN Generated("must have length >=", var_name)
    ELSE IF kw.length # NoneV /\ value.n # kw.length.n THEN Generated("must have length =", var_name)
    ELSE IF kw.max_len # NoneV /\ value.n > kw.max_len.n THEN Generated("must have length <=", var_name)
    ELSE Generated("has invalid length", var_name)

LengthValidator_get_error_message(value, var_name, kw) ==
    IF value.t \notin Sized THEN Generated("must have a length", var_name)
    ELSE IF kw.length # NoneV /\ value.n # kw.length.n THEN Generated("must have length =", var_name)
    ELSE IF kw.min_len # NoneV /\ value.n < kw.min_len.n THEN Generated("must have length >=", var_name)
    ELSE IF kw.max_len # NoneV /\ value.n > kw.max_len.n THEN Generated("must have length <=", var_name)
    ELSE Generated("has invalid length", var_name)

PathValidator_get_error_message(f, value, var_name, kw) ==
    IF kw.must_exist = BoolV(1) /\ ~Exists(f, value.path) THEN Generated("path must exist", var_name)
    ELSE IF kw.must_exist = BoolV(0) /\ Exists(f, value.path) THEN Generated("path must not exist", var_name)
    ELSE IF kw.must_be_file /\ ~Exists(f, value.path) THEN Generated("must be an existing file", var_name)
    ELSE IF kw.must_be_file /\ Kind(f, value.path) # "file" THEN Generated("must be a file", var_name)
    ELSE IF kw.must_be_dir /\ ~Exists(f, value.path) THEN Generated("must be an existing directory", var_name)
    ELSE IF kw.must_be_dir /\ Kind(f, value.path) # "dir" THEN Generated("must be a directory", var_name)
    ELSE Generated("path validation failed", var_name)

GetErrorMessage(f, validator_name, value, var_name, kw) ==
    CASE validator_name = "type" -> TypeValidator_get_error_message(value, var_name, kw)
      [] validator_name = "range" -> RangeValidator_get_error_message(value, var_name, kw)
      [] validator_name = "length" -> LengthValidator_get_error_message(value, var_name, kw)
      [] validator_name = "path" -> PathValidator_get_error_message(f, value, var_name, kw)

----------------------------------------------------------------------------
(* TypeValidationEngine.  eng is the engine as an operation sees it:      *)
(* config is self.config, vconfig the validators' config.  src is the     *)
(* call site the resolver inspects, f the filesystem.                     *)

Engine(h, ec, vc) == [config |-> h[ec], vconfig |-> h[vc]]

\* The first argument of the call as written on the source line: a root (an
\* identifier x, a literal 42, or none when the call has no positional
\* argument), the postfix operations applied to it in order (".a", "[0]",
\* "()"), and a trailing binary operation ("+1") or "".
Expr(root, suffixes, tail) == [root |-> root, suffixes |-> suffixes, tail |-> tail]

NoArg == Expr("none", <<>>, "")
Ident == Expr("name", <<>>, "")

\* The call site the resolver inspects: whether its source line is
\* available (code_context), whether the line parses as a statement on its
\* own or as the right-hand side of an assignment, how the validation
\* function is called on it ("name": f(...); "attr": obj.f(...); "absent":
\* under no known name), and the first argument.
CallSite(available, parses, func, arg) ==
    [available |-> available, parses |-> parses, func |-> func, arg |-> arg]

NoSource == CallSite(FALSE, FALSE, "absent", NoArg)

RootText(root) == IF root = "name" THEN "x" ELSE IF root = "const" THEN "42" ELSE ""

SuffixText(op) == IF op = "attr" THEN ".a" ELSE IF op = "sub" THEN "[0]" ELSE "()"

\* _extract_name_from_ast_node on the node root + suffixes
RECURSIVE AstName(_, _)
AstName(root, suffixes) ==
    IF suffixes = <<>> THEN (IF root = "name" THEN "x" ELSE "expression")
    ELSE LET value == SubSeq(suffixes, 1, Len(suffixes) - 1)
             node == suffixes[Len(suffixes)]
         IN  IF node = "attr" THEN AstName(root, value) \o ".a"
             ELSE IF node = "sub" THEN AstName(root, value) \o "[...]"
             ELSE IF value = <<>> /\ root = "name" THEN "x(...)"
             ELSE IF value # <<>> /\ value[Len(value)] = "attr" THEN AstName(root, value) \o "(...)"
             ELSE "expression"

\* _extract_name_from_ast_node(node.args[0])
extract_name_from_ast_node(arg) ==
    IF arg.tail # "" THEN "expression" ELSE AstName(arg.root, arg.suffixes)

\* The text the first two patterns capture after `f(`: an identifier, the
\* attribute names that follow it, then the subscripts that follow those.
RECURSIVE PatternOne(_, _)
PatternOne(suffixes, subscripts) ==
    IF suffixes = <<>> THEN ""
    ELSE IF Head(suffixes) = "attr" /\ ~subscripts THEN ".a" \o PatternOne(Tail(suffixes), FALSE)
    ELSE IF Head(suffixes) = "sub" THEN "[0]" \o PatternOne(Tail(suffixes), TRUE)
    ELSE ""

\* The text the third pattern captures: everything up to the first comma
\* or closing parenthesis, white space removed.
RECURSIVE PatternThree(_, _)
PatternThree(suffixes, tail) ==
    IF suffixes = <<>> THEN tail
    ELSE IF Head(suffixes) = "call" THEN "("
    ELSE SuffixText(Head(suffixes)) \o PatternThree(Tail(suffixes), tail)

\* _extract_with_regex on a line that has `f(` for a known f
extract_with_regex(arg) ==
    IF arg.root = "name" THEN "x" \o PatternOne(arg.suffixes, FALSE)
    ELSE IF arg.root = "const" THEN "42" \o PatternThree(arg.suffixes, arg.tail)
    ELSE "value"

\* VariableNameExtractor.extract_from_frame
extract_from_frame(src) ==
    IF ~src.available THEN "value"
    ELSE IF ~src.parses THEN "value"
    ELSE IF src.func = "name" /\ src.arg.root # "none" THEN extract_name_from_ast_node(src.arg)
    ELSE IF src.func = "absent" THEN "value"
    ELSE extract_with_regex(src.arg)

\* A frame of the call stack: the function running in it and the source
\* line it is executing.
Frame(name, line) == [name |-> name, line |-> line]

internal_functions ==
    {"assert_type", "assert_range", "assert_length", "assert_not_none", "is_type",
     "assert_numeric", "assert_string_like", "assert_sequence", "assert_mapping",
     "assert_path", "is_not_none", "_validate_with_engine", "_assert_with_engine"}

\* A line of the engine's own source: it is available, parses, and calls
\* no validation function by name.
EngineLine == CallSite(TRUE, TRUE, "absent", NoArg)

\* The stack when _find_original_caller_frame runs, outermost first: the
\* caller at its call site src, the engine's methods (the longest chain,
\* through _assert_with_engine), then _get_variable_name and
\* _find_original_caller_frame themselves.
CallStack(src) ==
    <<Frame("<module>", src),
      Frame("assert_type", EngineLine),
      Frame("_assert_with_engine", EngineLine),
      Frame("_validate_with_engine", EngineLine),
      Frame("_get_variable_name", EngineLine),
      Frame("_find_original_caller_frame", EngineLine)>>

\* The walk with _get_variable_name counted among the internal functions
SkipsResolver(name) == name \in internal_functions \cup {"_get_variable_name"}

\* func_name not in internal_functions, negated
Skips(name) == name \in internal_functions

\* The while loop of _find_original_caller_frame, from frame i outwards;
\* when every frame is skipped, inspect.currentframe().f_back.
RECURSIVE Walk(_, _)
Walk(frames, i) ==
    IF i = 0 THEN Len(frames) - 1
    ELSE IF ~Skips(frames[i].name) THEN i
    ELSE Walk(frames, i - 1)

\* _find_original_caller_frame
find_original_caller_frame(frames) == frames[Walk(frames, Len(frames) - 1)]

\* _get_variable_name
GetVariableName(eng, src) ==
    IF ~eng.config.auto_extract_names THEN "value"
    ELSE extract_from_frame(find_original_caller_frame(CallStack(src)).line)

\* The outcome of an operation: the value returned, or the error raised
\* (its class, the check that raised it, its message), and the number of
\* times the operation resolved the subject name.
Returned(value, resolved) ==
    [outcome |-> "returned", ret |-> value, cls |-> "", check |-> "",
     message |-> NoMessage, resolved |-> resolved]

Raised(cls, check, message, resolved) ==
    [outcome |-> "raised", ret |-> NoneV, cls |-> cls, check |-> check,
     message |-> message, resolved |-> resolved]

\* self.config.custom_error_class at a raise
ErrorClass(eng) == eng.config.custom_error_class

\* raise_on_failure honoured only when names are extracted
RaiseOnlyWhenNaming(eng) == eng.config.raise_on_failure /\ eng.config.auto_extract_names

\* self.config.raise_on_failure
RaiseOnFailure(eng) == eng.config.raise_on_failure

\* custom_msg or <generated>
MsgOr(msg, generated) == IF Truthy(msg) THEN Custom(msg) ELSE generated

\* _validate_with_engine: returns is_valid (as a bool value) or raises.
ValidateWithEngine(eng, f, validator_name, value, msg, kw, src) ==
    LET r == Validate(f, validator_name, value, kw) IN
    IF r.exc # "" THEN Raised(r.exc, "builtin", NoMessage, 0)
    ELSE IF ~r.ok /\ RaiseOnFailure(eng)
    THEN Raised(ErrorClass(eng), validator_name,
                MsgOr(msg, GetErrorMessage(f, validator_name, value,
                                           GetVariableName(eng, src), kw)), 1)
    ELSE Returned(BoolV(IF r.ok THEN 1 ELSE 0), 0)

\* _assert_with_engine returning what _validate_with_engine returned
AssertWithEngineReturnsValid(eng, f, validator_name, value, msg, kw, src) ==
    ValidateWithEngine(eng, f, validator_name, value, msg, kw, src)

\* _assert_with_engine
AssertWithEngine(eng, f, validator_name, value, msg, kw, src) ==
    LET r == ValidateWithEngine(eng, f, validator_name, value, msg, kw, src) IN
    IF r.outcome = "raised" THEN r ELSE Returned(value, r.resolved)

\* first; then second if first returned; then return value
Then(first, second, value) ==
    IF first.outcome = "raised" THEN first
    ELSE IF second.outcome = "raised"
    THEN [second EXCEPT !.resolved = first.resolved + second.resolved]
    ELSE Returned(value, first.resolved + second.resolved)

\* is_type: isinstance(value, expected_type); isinstance takes a class or a
\* tuple of classes and raises TypeError for anything else (a list, None).
is_type(value, expected_type) ==
    IF expected_type.form \in {"class", "tuple"}
    THEN Ok(AnyInstance(value, expected_type.types))
    ELSE Exc("TypeError")

\* is_not_none: value is not None
is_not_none(value) == Ok(value # NoneV)

\* A bool result, or the built-in error, of a call that takes no msg and
\* resolves no name.
Direct(r) ==
    IF r.exc # "" THEN Raised(r.exc, "builtin", NoMessage, 0)
    ELSE Returned(BoolV(IF r.ok THEN 1 ELSE 0), 0)

assert_type(eng, f, value, kw, msg, src) ==
    AssertWithEngine(eng, f, "type", value, msg, kw, src)

\* `not value` in place of `value is None`
IsFalsy(value) ==
    \/ value.t = "NoneType"
    \/ (IsNumber(value) /\ ~value.nan /\ value.n = 0)
    \/ (value.t \in Sized /\ value.n = 0)

\* value is None
IsNone(value) == value = NoneV

assert_not_none(eng, f, value, kw, msg, src) ==
    IF IsNone(value)
    THEN Raised(ErrorClass(eng), "not_none",
                MsgOr(msg, Generated("must not be None", GetVariableName(eng, src))), 1)
    ELSE Returned(value, 0)

assert_range(eng, f, value, kw, msg, src) ==
    Then(ValidateWithEngine(eng, f, "range", value, msg, kw, src), Returned(value, 0), value)

assert_length(eng, f, value, kw, msg, src) ==
    Then(ValidateWithEngine(eng, f, "length", value, msg, [kw EXCEPT !.length = NoneV], src),
         Returned(value, 0), value)

assert_numeric(eng, f, value, kw, msg, src) ==
    Then(AssertWithEngine(eng, f, "type", value, msg,
                          [kw EXCEPT !.expected_type = TupleOf(<<"int", "float">>)], src),
         IF kw.min_val # NoneV \/ kw.max_val # NoneV
         THEN ValidateWithEngine(eng, f, "range", value, msg, kw, src)
         ELSE Returned(value, 0),
         value)

assert_string_like(eng, f, value, kw, msg, src) ==
    Then(AssertWithEngine(eng, f, "type", value, msg,
                          [kw EXCEPT !.expected_type = TupleOf(<<"str", "bytes">>)], src),
         IF kw.min_len # NoneV \/ kw.max_len # NoneV
         THEN ValidateWithEngine(eng, f, "length", value, msg, [kw EXCEPT !.length = NoneV], src)
         ELSE Returned(value, 0),
         value)

assert_sequence(eng, f, value, kw, msg, src) ==
    Then(AssertWithEngine(eng, f, "type", value, msg,
                          [kw EXCEPT !.expected_type = TupleOf(<<"list", "tuple">>)], src),
         IF kw.min_len # NoneV \/ kw.max_len # NoneV \/ kw.length # NoneV
         THEN ValidateWithEngine(eng, f, "length", value, msg, kw, src)
         ELSE Returned(value, 0),
         value)

\* `key in value`: types that support the test with a str key
Container == {"dict", "list", "tuple", "str"}

\* The missing keys in reverse order
MissingKeysReversed(value, keys_to_check) ==
    LET m == SelectSeq(keys_to_check, LAMBDA key : key \notin value.keys)
    IN  [i \in 1..Len(m) |-> m[Len(m) + 1 - i]]

\* [key for key in keys_to_check if key not in value]
MissingKeys(value, keys_to_check) ==
    SelectSeq(keys_to_check, LAMBDA key : key \notin value.keys)

\* The required-keys part of assert_mapping
CheckRequiredKeys(eng, value, kw, msg, src) ==
    LET keys_to_check == kw.required_keys.keys
        missing_keys == MissingKeys(value, keys_to_check)
        var_name == GetVariableName(eng, src)
    IN  IF keys_to_check # <<>> /\ value.t \notin Container
        THEN Raised("TypeError", "builtin", NoMessage, 1)
        ELSE IF missing_keys # <<>>
        THEN Raised(ErrorClass(eng), "required_keys",
                    MsgOr(msg, IF Len(missing_keys) = 1
                               THEN Message(FALSE, "", "missing required key", var_name, missing_keys)
                               ELSE Message(FALSE, "", "missing required keys", var_name, missing_keys)),
                    1)
        ELSE Returned(value, 1)

assert_mapping(eng, f, value, kw, msg, src) ==
    Then(AssertWithEngine(eng, f, "type", value, msg,
                          [kw EXCEPT !.expected_type = Single("dict")], src),
         IF kw.required_keys.form # "none"
         THEN CheckRequiredKeys(eng, value, kw, msg, src)
         ELSE Returned(value, 0),
         value)

\* Path.parent
Parent(p) == IF p = "d/f" THEN "d" ELSE "."

\* create_parents and not path_obj.parent.exists()
NeedsMkdir(f, value, kw) == kw.create_parents /\ ~Exists(f, Parent(ToPath(value).path))

\* path_obj.parent.mkdir(parents=True, exist_ok=True)
Mkdir(f, p) == IF p \in DOMAIN f THEN [f EXCEPT ![p] = "dir"] ELSE f

\* len(value) == 0 without the strip()
IsEmptyPathUnstripped(value) == value.t \in {"str", "bytes"} /\ value.n = 0

\* isinstance(value, (str, bytes)) and len(value.strip() if str else value) == 0
IsEmptyPath(value) == value.t \in {"str", "bytes"} /\ value.blank

\* assert_path; oserror tells whether the operating system refuses mkdir.
assert_path(eng, f, value, kw, msg, src, oserror) ==
    LET var_name == GetVariableName(eng, src) IN
    IF ~Convertible(value)
    THEN Raised(ErrorClass(eng), "path_convert",
                MsgOr(msg, Generated("cannot be converted to a Path", var_name)), 1)
    ELSE IF IsEmptyPath(value)
    THEN Raised(ErrorClass(eng), "path_empty",
                MsgOr(msg, Generated("cannot be an empty path", var_name)), 1)
    ELSE IF NeedsMkdir(f, value, kw) /\ oserror
    THEN Raised(ErrorClass(eng), "path_mkdir",
                MsgOr(msg, Generated("parent directories could not be created", var_name)), 1)
    ELSE LET g == IF NeedsMkdir(f, value, kw) THEN Mkdir(f, Parent(ToPath(value).path)) ELSE f
         IN  Then(Returned(value, 1),
                  ValidateWithEngine(eng, g, "path", ToPath(value), msg, kw, src),
                  ToPath(value))

\* The filesystem assert_path leaves behind.
assert_path_fs(f, value, kw, oserror) ==
    IF Convertible(value) /\ ~IsEmptyPath(value)
       /\ NeedsMkdir(f, value, kw) /\ ~oserror
    THEN Mkdir(f, Parent(ToPath(value).path))
    ELSE f

\* The assert_* methods
AssertOps ==
    {"assert_type", "assert_not_none", "assert_range", "assert_length", "assert_numeric",
     "assert_string_like", "assert_sequence", "assert_mapping", "assert_path"}

\* The assertion op applied to its arguments.
Run(op, eng, f, value, kw, msg, src, oserror) ==
    CASE op = "assert_type" -> assert_type(eng, f, value, kw, msg, src)
      [] op = "assert_not_none" -> assert_not_none(eng, f, value, kw, msg, src)
      [] op = "assert_range" -> assert_range(eng, f, value, kw, msg, src)
      [] op = "assert_length" -> assert_length(eng, f, value, kw, msg, src)
      [] op = "assert_numeric" -> assert_numeric(eng, f, value, kw, msg, src)
      [] op = "assert_string_like" -> assert_string_like(eng, f, value, kw, msg, src)
      [] op = "assert_sequence" -> assert_sequence(eng, f, value, kw, msg, src)
      [] op = "assert_mapping" -> assert_mapping(eng, f, value, kw, msg, src)
      [] op = "assert_path" -> assert_path(eng, f, value, kw, msg, src, oserror)

----------------------------------------------------------------------------
(* ValidationContext *)

\* **config_overrides: the fields named (has) and their values (val).
Override(has, val) == [has |-> has, val |-> val]

NoOverride == Override({}, DefaultConfig)

Overrides ==
    {Override({"raise_on_failure"}, ValidationConfig(TRUE, TRUE, FALSE, "TypeAssertionError")),
     Override({"custom_error_class"}, ValidationConfig(TRUE, TRUE, TRUE, "CustomError")),
     Override({"strict_mode", "auto_extract_names", "raise_on_failure"}, ValidationConfig(FALSE, FALSE, TRUE, "TypeAssertionError"))}

\* dict.get(key, default)
Get(ov, field, default) == IF field \in ov.has THEN ov.val[field] ELSE default

\* __enter__ with the strict_mode override dropped.
MergedConfigDropsStrictMode(ov, original) ==
    ValidationConfig(original.strict_mode,
                     Get(ov, "auto_extract_names", original.auto_extract_names),
                     Get(ov, "raise_on_failure", original.raise_on_failure),
                     Get(ov, "custom_error_class", original.custom_error_class))

\* The configuration __enter__ builds.
MergedConfig(ov, original) ==
    ValidationConfig(Get(ov, "strict_mode", original.strict_mode),
                     Get(ov, "auto_extract_names", original.auto_extract_names),
                     Get(ov, "raise_on_failure", original.raise_on_failure),
                     Get(ov, "custom_error_class", original.custom_error_class))

Unborn == [status |-> "unborn", original_config |-> 0, config_overrides |-> NoOverride]

NoHist == [preEntry |-> 0, installed |-> 0]

NoCall ==
    [op |-> "none", value |-> NoneV, kw |-> NoKw, msg |-> NoMsg,
     src |-> NoSource, res |-> Returned(NoneV, 0)]

FsPaths == {"d", "d/f"}

\* Filesystems: d/f exists only inside a directory d.
FsStates ==
    {f \in [FsPaths -> {"absent", "file", "dir"}] : f["d/f"] # "absent" => f["d"] = "dir"}

\* A directory d with nothing in it.
EmptyDir == [p \in FsPaths |-> IF p = "d" THEN "dir" ELSE "absent"]

\* BatchValidator.__init__
BatchValidator == [errors |-> <<>>, log |-> <<>>]

\* TypeValidationEngine.__init__: one configuration object, shared with the
\* four validators.
EngineInit ==
    /\ \E c \in EngineConfigs : heap = <<c>>
    /\ engineConfig = 1
    /\ validatorsConfig = 1
    /\ ctx = [c \in CtxIds |-> Unborn]
    /\ stack = <<>>
    /\ hist = [c \in CtxIds |-> NoHist]
    /\ pending = FALSE
    /\ last = NoCall
    /\ batch = BatchValidator

Init == EngineInit /\ fs = EmptyDir

InitOps == EngineInit /\ fs \in FsStates

\* ValidationContext.__init__
Construct(c, ov) ==
    /\ ~pending
    /\ ctx[c].status = "unborn"
    /\ \A d \in CtxIds : d < c => ctx[d].status # "unborn"
    /\ ctx' = [ctx EXCEPT ![c] = [status |-> "constructed",
                                  original_config |-> engineConfig,
                                  config_overrides |-> ov]]
    /\ last' = NoCall
    /\ UNCHANGED <<heap, engineConfig, validatorsConfig, stack, hist, fs, pending, batch>>

\* The heap after __enter__ allocates its new_config.
EnterHeap(h, c) == Append(h, MergedConfig(ctx[c].config_overrides, h[ctx[c].original_config]))

\* ValidationContext.__enter__
Enter(c) ==
    /\ ~pending
    /\ ctx[c].status \in {"constructed", "exited"}
    /\ Len(heap) < MaxConfigs
    /\ heap' = EnterHeap(heap, c)
    /\ engineConfig' = Len(heap')
    /\ ctx' = [ctx EXCEPT ![c].status = "entered"]
    /\ stack' = Append(stack, c)
    /\ hist' = [hist EXCEPT ![c] = [preEntry |-> engineConfig, installed |-> Len(heap')]]
    /\ last' = NoCall
    /\ UNCHANGED <<validatorsConfig, fs, pending, batch>>

\* The configuration that was active when the scope was entered
RestoredPreEntry(c) == hist[c].preEntry

\* The configuration __exit__ puts back on the engine.
Restored(c) == ctx[c].original_config

\* ValidationContext.__exit__, leaving the innermost with-block; exc tells
\* whether an exception is propagating through it (it is not swallowed).
Exit(c, exc) ==
    /\ stack # <<>>
    /\ c = stack[Len(stack)]
    /\ pending = exc
    /\ engineConfig' = Restored(c)
    /\ ctx' = [ctx EXCEPT ![c].status = "exited"]
    /\ stack' = SubSeq(stack, 1, Len(stack) - 1)
    /\ last' = NoCall
    /\ UNCHANGED <<heap, validatorsConfig, hist, fs, pending, batch>>

\* Two threads sharing the engine, each with a ValidationContext of its own
\* (thread t has context t). Each method reads or writes engine.config
\* once, so a method is one step of its thread.
Threads == 1..2

\* Thread t constructs its context.
ThreadConstruct(t, ov) ==
    /\ ctx[t].status = "unborn"
    /\ ctx' = [ctx EXCEPT ![t] = [status |-> "constructed",
                                  original_config |-> engineConfig,
                                  config_overrides |-> ov]]
    /\ UNCHANGED <<heap, engineConfig, validatorsConfig, stack, hist, fs, pending, last, batch>>

\* Thread t enters its with-block.
ThreadEnter(t) == ctx[t].status = "constructed" /\ Enter(t)

\* Thread t leaves its with-block, whatever the other thread is doing.
ThreadExit(t) ==
    /\ ctx[t].status = "entered"
    /\ engineConfig' = Restored(t)
    /\ ctx' = [ctx EXCEPT ![t].status = "exited"]
    /\ stack' = SelectSeq(stack, LAMBDA c : c # t)
    /\ UNCHANGED <<heap, validatorsConfig, hist, fs, pending, last, batch>>

\* The caller's except clause catches the propagating error.
Catch ==
    /\ pending
    /\ pending' = FALSE
    /\ last' = NoCall
    /\ UNCHANGED <<heap, engineConfig, validatorsConfig, ctx, stack, hist, fs, batch>>

----------------------------------------------------------------------------
(* Engine operations as actions *)

Eng == Engine(heap, engineConfig, validatorsConfig)

\* The caller is ready to make a call.
Ready == ~pending /\ last.op = "none"

\* An engine call: its outcome is recorded, a raised error propagates.
Call(op, res, value, kw, msg, src, g) ==
    /\ last' = [op |-> op, value |-> value, kw |-> kw, msg |-> msg, src |-> src, res |-> res]
    /\ pending' = (res.outcome = "raised")
    /\ fs' = g
    /\ UNCHANGED <<heap, engineConfig, validatorsConfig, ctx, stack, hist, batch>>

AssertType(value, expected_type, msg, src) ==
    LET kw == [NoKw EXCEPT !.expected_type = expected_type] IN
    Call("assert_type", assert_type(Eng, fs, value, kw, msg, src), value, kw, msg, src, fs)

AssertNotNone(value, msg, src) ==
    Call("assert_not_none", assert_not_none(Eng, fs, value, NoKw, msg, src), value, NoKw, msg, src, fs)

AssertRange(value, min_val, max_val, msg, src) ==
    LET kw == [NoKw EXCEPT !.min_val = min_val, !.max_val = max_val] IN
    Call("assert_range", assert_range(Eng, fs, value, kw, msg, src), value, kw, msg, src, fs)

AssertLength(value, min_len, max_len, msg, src) ==
    LET kw == [NoKw EXCEPT !.min_len = min_len, !.max_len = max_len] IN
    Call("assert_length", assert_length(Eng, fs, value, kw, msg, src), value, kw, msg, src, fs)

AssertNumeric(value, min_val, max_val, msg, src) ==
    LET kw == [NoKw EXCEPT !.min_val = min_val, !.max_val = max_val] IN
    Call("assert_numeric", assert_numeric(Eng, fs, value, kw, msg, src), value, kw, msg, src, fs)

AssertStringLike(value, min_len, max_len, msg, src) ==
    LET kw == [NoKw EXCEPT !.min_len = min_len, !.max_len = max_len] IN
    Call("assert_string_like", assert_string_like(Eng, fs, value, kw, msg, src), value, kw, msg, src, fs)

AssertSequence(value, min_len, max_len, length, msg, src) ==
    LET kw == [NoKw EXCEPT !.min_len = min_len, !.max_len = max_len, !.length = length] IN
    Call("assert_sequence", assert_sequence(Eng, fs, value, kw, msg, src), value, kw, msg, src, fs)

AssertMapping(value, required_keys, msg, src) ==
    LET kw == [NoKw EXCEPT !.required_keys = required_keys] IN
    Call("assert_mapping", assert_mapping(Eng, fs, value, kw, msg, src), value, kw, msg, src, fs)

AssertPath(value, must_exist, must_be_file, must_be_dir, create_parents, msg, src, oserror) ==
    LET kw == [NoKw EXCEPT !.must_exist = must_exist, !.must_be_file = must_be_file,
                           !.must_be_dir = must_be_dir, !.create_parents = create_parents]
    IN  Call("assert_path", assert_path(Eng, fs, value, kw, msg, src, oserror),
             value, kw, msg, src, assert_path_fs(fs, value, kw, oserror))

\* A call that takes no msg and whose call site plays no part.
DirectCall(op, r, value, kw) == Call(op, Direct(r), value, kw, NoMsg, NoSource, fs)

IsType(value, expected_type) ==
    DirectCall("is_type", is_type(value, expected_type), value,
               [NoKw EXCEPT !.expected_type = expected_type])

IsNotNone(value) == DirectCall("is_not_none", is_not_none(value), value, NoKw)

\* The registered validators, called directly.
TypeValidate(value, expected_type) ==
    LET kw == [NoKw EXCEPT !.expected_type = expected_type] IN
    DirectCall("TypeValidator.validate", TypeValidator_validate(value, kw), value, kw)

RangeValidate(value, min_val, max_val) ==
    LET kw == [NoKw EXCEPT !.min_val = min_val, !.max_val = max_val] IN
    DirectCall("RangeValidator.validate", RangeValidator_validate(value, kw), value, kw)

LengthValidate(value, min_len, max_len, length) ==
    LET kw == [NoKw EXCEPT !.min_len = min_len, !.max_len = max_len, !.length = length] IN
    DirectCall("LengthValidator.validate", LengthValidator_validate(value, kw), value, kw)

PathValidate(value, must_exist, must_be_file, must_be_dir) ==
    LET kw == [NoKw EXCEPT !.must_exist = must_exist, !.must_be_file = must_be_file,
                           !.must_be_dir = must_be_dir]
    IN  DirectCall("PathValidator.validate", PathValidator_validate(fs, value, kw), value, kw)

\* get_error_message called directly: the message it returns, or the
\* error of a comparison it makes (the comparisons of validate, in the
\* same order).
DirectMessage(r, message) ==
    IF r.exc # "" THEN Raised(r.exc, "builtin", NoMessage, 0)
    ELSE [Returned(NoneV, 0) EXCEPT !.message = message]

RangeMessage(value, min_val, max_val) ==
    LET kw == [NoKw EXCEPT !.min_val = min_val, !.max_val = max_val] IN
    Call("RangeValidator.get_error_message",
         DirectMessage(RangeValidator_validate(value, kw),
                       RangeValidator_get_error_message(value, "value", kw)),
         value, kw, NoMsg, NoSource, fs)

LengthMessage(value, min_len, max_len, length) ==
    LET kw == [NoKw EXCEPT !.min_len = min_len, !.max_len = max_len, !.length = length] IN
    Call("LengthValidator.get_error_message",
         DirectMessage(Ok(TRUE), LengthValidator_get_error_message(value, "value", kw)),
         value, kw, NoMsg, NoSource, fs)

\* _find_original_caller_frame run at the bottom of the stack frames
\* (outermost first, its own frame last): the position of the frame it
\* returns.
FindOriginalCallerFrame(frames) ==
    /\ last' = [op |-> "_find_original_caller_frame", value |-> NoneV, kw |-> NoKw,
                msg |-> NoMsg, src |-> NoSource, res |-> Returned(NoneV, 0),
                frames |-> frames, chosen |-> Walk(frames, Len(frames) - 1)]
    /\ UNCHANGED <<heap, engineConfig, validatorsConfig, ctx, stack, hist, fs, pending, batch>>

\* A str used as a label; its length plays no part.
NameV(text) == Value("str", 0, FALSE, {}, FALSE, text)

\* VariableNameExtractor.extract_from_frame called on a frame whose source
\* line is src.
ExtractFromFrame(src) ==
    Call("extract_from_frame", Returned(NameV(extract_from_frame(src)), 0),
         NoneV, NoKw, NoMsg, src, fs)

----------------------------------------------------------------------------
(* BatchValidator *)

\* str(e) of the exception a validation raised
ErrorText(r) == IF r.check = "builtin" THEN Generated(r.cls, "") ELSE r.message

\* The errors kept only while the list is empty
AppendFirstOnly(errors, r) == IF errors = <<>> THEN <<ErrorText(r)>> ELSE errors

\* self.errors.append(str(e))
AppendError(errors, r) == Append(errors, ErrorText(r))

\* A call on the batch: its outcome, the filesystem and the batch after it.
BatchCall(op, res, value, kw, msg, src, g, b) ==
    /\ last' = [op |-> op, value |-> value, kw |-> kw, msg |-> msg, src |-> src, res |-> res]
    /\ pending' = (res.outcome = "raised")
    /\ fs' = g
    /\ batch' = b
    /\ UNCHANGED <<heap, engineConfig, validatorsConfig, ctx, stack, hist>>

\* add_validation(value, validator_func, ...), validator_func being the
\* engine's method op: whatever it raises is caught and kept as text.
AddValidation(op, value, kw, msg, src, oserror) ==
    LET r == Run(op, Eng, fs, value, kw, msg, src, oserror) IN
    /\ Len(batch.log) < MaxBatch
    /\ BatchCall("add_validation", Returned(NoneV, r.resolved), value, kw, msg, src,
                 IF op = "assert_path" THEN assert_path_fs(fs, value, kw, oserror) ELSE fs,
                 [errors |-> IF r.outcome = "raised" THEN AppendError(batch.errors, r)
                             ELSE batch.errors,
                  log |-> Append(batch.log, r)])

\* validate_all(raise_on_error)
validate_all(eng, errors, raise_on_error) ==
    IF errors # <<>> /\ raise_on_error
    THEN Raised(ErrorClass(eng), "batch", Generated("Batch validation failed", ""), 0)
    ELSE Returned(BoolV(IF Len(errors) = 0 THEN 1 ELSE 0), 0)

ValidateAll(raise_on_error) ==
    BatchCall("validate_all", validate_all(Eng, batch.errors, raise_on_error),
              BoolV(IF raise_on_error THEN 1 ELSE 0), NoKw, NoMsg, NoSource, fs, batch)

\* get_errors: a copy of the list
GetErrors ==
    BatchCall("get_errors", Returned(ListV(Len(batch.errors)), 0), NoneV, NoKw, NoMsg, NoSource,
              fs, batch)

\* clear_errors
ClearErrors ==
    BatchCall("clear_errors", Returned(NoneV, 0), NoneV, NoKw, NoMsg, NoSource, fs, BatchValidator)

----------------------------------------------------------------------------
(* SchemaValidator *)

\* A schema entry: 'type', 'required', 'validator' and 'default' of a key.
FieldSpec(key, type, required, validator, default) ==
    [key |-> key, type |-> type, required |-> required, validator |-> validator,
     default |-> default]

\* result = {}
EmptyMapping == [k \in {} |-> NoneV]

\* result[key] = value
Put(mapping, key, value) ==
    [k \in DOMAIN mapping \cup {key} |-> IF k = key THEN value ELSE mapping[k]]

\* The loop's state: the result so far, the data, and the error raised.
SchemaState(result, data, res) == [result |-> result, data |-> data, res |-> res]

\* One turn of `for key, field_spec in schema.items()`
SchemaField(eng, f, st, field) ==
    IF field.key \in DOMAIN st.data
    THEN LET value == st.data[field.key]
             typed == IF field.type.form # "none"
                      THEN assert_type(eng, f, value, [NoKw EXCEPT !.expected_type = field.type],
                                       NoMsg, NoSource)
                      ELSE Returned(value, 0)
         IN  IF typed.outcome = "raised" THEN [st EXCEPT !.res = typed]
             ELSE IF field.validator = "rejects"
             THEN [st EXCEPT !.res = Raised("ValueError", "validator", NoMessage, typed.resolved)]
             ELSE [st EXCEPT !.result = Put(st.result, field.key, typed.ret)]
    ELSE IF field.required
    THEN [st EXCEPT !.res = Raised(ErrorClass(eng), "required",
                                   Generated("Required field is missing", field.key), 0)]
    ELSE IF field.default # NoneV
    THEN [st EXCEPT !.result = Put(st.result, field.key, field.default)]
    ELSE st

RECURSIVE SchemaLoop(_, _, _, _, _)
SchemaLoop(eng, f, st, schema, i) ==
    IF i > Len(schema) \/ st.res.outcome = "raised" THEN st
    ELSE SchemaLoop(eng, f, SchemaField(eng, f, st, schema[i]), schema, i + 1)

SchemaKeys(schema) == {schema[i].key : i \in 1..Len(schema)}

\* Only one of the keys outside the schema
ExtraKeysOne(data, schema) ==
    LET extra == DOMAIN data \ SchemaKeys(schema) IN
    IF extra = {} THEN {} ELSE {CHOOSE k \in extra : TRUE}

\* set(validated_data.keys()) - set(schema.keys())
ExtraKeys(data, schema) == DOMAIN data \ SchemaKeys(schema)

\* list(extra_keys): the keys of a set, in the order the set yields them.
Orders(S) ==
    {s \in [1..Cardinality(S) -> S] : \A i, j \in 1..Cardinality(S) : i # j => s[i] # s[j]}

\* validate_dict_schema(data, schema, strict); order is what list(extra_keys)
\* yields.
validate_dict_schema(eng, f, data, schema, strict, order) ==
    LET mapped == assert_mapping(eng, f, DictV(DOMAIN data), NoKw, NoMsg, NoSource)
        st == SchemaLoop(eng, f, SchemaState(EmptyMapping, data, Returned(NoneV, 0)), schema, 1)
    IN  IF mapped.outcome = "raised" THEN SchemaState(EmptyMapping, data, mapped)
        ELSE IF st.res.outcome = "raised" THEN st
        ELSE IF strict /\ ExtraKeys(data, schema) # {}
        THEN [st EXCEPT !.res = Raised(ErrorClass(eng), "extra",
                                       Message(FALSE, "", "Unexpected keys found", "", order), 0)]
        ELSE [st EXCEPT !.res = Returned(DictV(DOMAIN st.result), 0)]

ValidateDictSchema(data, schema, strict) ==
    \E order \in Orders(ExtraKeys(data, schema)) :
        LET st == validate_dict_schema(Eng, fs, data, schema, strict, order) IN
        /\ last' = [op |-> "validate_dict_schema", value |-> DictV(DOMAIN data), kw |-> NoKw,
                    msg |-> NoMsg, src |-> NoSource, res |-> st.res,
                    data |-> data, schema |-> schema, strict |-> strict,
                    result |-> st.result, after |-> st.data]
        /\ pending' = (st.res.outcome = "raised")
        /\ UNCHANGED <<heap, engineConfig, validatorsConfig, ctx, stack, hist, fs, batch>>

----------------------------------------------------------------------------
(* TypeValidationDecorator *)

\* A bound argument: the parameter's name, its type hint (NoType when it
\* has none) and the value bound to it.
Param(name, hint, value) == [name |-> name, hint |-> hint, value |-> value]

\* re.sub(r"'[^']*'", f"'{param_name}'", error_msg, count=1): the first
\* quoted text of a generated message is the subject name.
Rename(message, param_name) ==
    IF message.custom THEN message ELSE [message EXCEPT !.name = param_name]

\* except TypeAssertionError
Caught(r) == "TypeAssertionError" \in ExcMro(r.cls)

\* The wrapper's loop over bound_args.arguments from position i on.
RECURSIVE CheckParams(_, _, _, _)
CheckParams(eng, f, params, i) ==
    IF i > Len(params) THEN Returned(NoneV, 0)
    ELSE IF params[i].hint.form = "none" THEN CheckParams(eng, f, params, i + 1)
    ELSE LET r == assert_type(eng, f, params[i].value,
                              [NoKw EXCEPT !.expected_type = params[i].hint], NoMsg, NoSource)
         IN  IF r.outcome = "raised"
             THEN IF Caught(r)
                  THEN Raised("TypeError", "type", Rename(r.message, params[i].name), r.resolved)
                  ELSE r
             ELSE CheckParams(eng, f, params, i + 1)

\* A call of the wrapper type_checked returns: the checks, then func itself.
TypeChecked(params) ==
    LET r == CheckParams(Eng, fs, params, 1) IN
    /\ last' = [op |-> "type_checked", value |-> NoneV, kw |-> NoKw, msg |-> NoMsg,
                src |-> NoSource, res |-> r, params |-> params,
                invoked |-> r.outcome = "returned",
                args |-> IF r.outcome = "returned"
                         THEN [i \in 1..Len(params) |-> params[i].value] ELSE <<>>]
    /\ pending' = (r.outcome = "raised")
    /\ UNCHANGED <<heap, engineConfig, validatorsConfig, ctx, stack, hist, fs, batch>>

----------------------------------------------------------------------------
(* Inputs *)

Numbers == {IntV(k) : k \in -1..MaxNum} \cup {BoolV(0), BoolV(1), FloatV(1), NaN}

Values ==
    Numbers
    \cup {NoneV}
    \cup {StrV(0, TRUE, ""), StrV(2, TRUE, "  "), StrV(1, FALSE, "d"), StrV(3, FALSE, "d/f")}
    \cup {BytesV(0, ""), BytesV(1, "d")}
    \cup {ListV(n) : n \in 0..MaxLen}
    \cup {TupleV(1)}
    \cup {DictV(ks) : ks \in SUBSET Keys}
    \cup {PathV("d"), PathV("d/f")}

Bounds == {NoneV, NaN} \cup {IntV(k) : k \in 0..(MaxNum - 1)}

Lengths == {NoneV} \cup {IntV(k) : k \in 0..MaxLen}

ExpectedTypes ==
    {NoType, Single("int"), Single("str"), Single("dict"), Single("object"),
     ListOf(<<"int", "str">>), ListOf(<<"list", "tuple">>), ListOf(<<>>),
     TupleOf(<<"int", "float">>)}

RequiredKeys == {NoKeys, OneKey("a"), KeyList(<<>>), KeyList(<<"a", "b">>), KeyList(<<"b", "a">>)}

Msgs == {NoMsg, Msg(""), Msg("Custom error message")}

\* engine.assert_x(x, ...) with and without its source line
CallSites == {NoSource, CallSite(TRUE, TRUE, "attr", Ident)}

MustExist == {NoneV, BoolV(1), BoolV(0)}

\* One input set per parameter kind.
AllInputs ==
    [values |-> Values, bounds |-> Bounds, lengths |-> Lengths, types |-> ExpectedTypes,
     keys |-> RequiredKeys, msgs |-> Msgs, sites |-> CallSites,
     must_exist |-> MustExist, flags |-> BOOLEAN]

\* The calls made inside scopes: a passing and a failing input per check.
ScopeInputs ==
    [values |-> {NoneV, IntV(MaxNum), DictV({})},
     bounds |-> {IntV(0)}, lengths |-> {IntV(MaxLen)}, types |-> {Single("int")},
     keys |-> {OneKey("a")}, msgs |-> {NoMsg}, sites |-> {CallSite(TRUE, TRUE, "attr", Ident)},
     must_exist |-> {NoneV}, flags |-> {FALSE}]

Ops(I) ==
    /\ Ready
    /\ \/ \E v \in I.values, t \in I.types, m \in I.msgs, s \in I.sites : AssertType(v, t, m, s)
       \/ \E v \in I.values, m \in I.msgs, s \in I.sites : AssertNotNone(v, m, s)
       \/ \E v \in I.values, lo \in I.bounds, hi \in I.bounds, m \in I.msgs, s \in I.sites :
             AssertRange(v, lo, hi, m, s)
       \/ \E v \in I.values, lo \in I.lengths, hi \in I.lengths, m \in I.msgs, s \in I.sites :
             AssertLength(v, lo, hi, m, s)
       \/ \E v \in I.values, lo \in I.bounds, hi \in I.bounds, m \in I.msgs, s \in I.sites :
             AssertNumeric(v, lo, hi, m, s)
       \/ \E v \in I.values, lo \in I.lengths, hi \in I.lengths, m \in I.msgs, s \in I.sites :
             AssertStringLike(v, lo, hi, m, s)
       \/ \E v \in I.values, lo \in I.lengths, hi \in I.lengths, k \in I.lengths,
             m \in I.msgs, s \in I.sites :
             AssertSequence(v, lo, hi, k, m, s)
       \/ \E v \in I.values, k \in I.keys, m \in I.msgs, s \in I.sites : AssertMapping(v, k, m, s)
       \/ \E v \in I.values, e \in I.must_exist, bf \in I.flags, bd \in I.flags, cp \in I.flags,
             m \in I.msgs, s \in I.sites, oserror \in I.flags :
             AssertPath(v, e, bf, bd, cp, m, s, oserror)

\* The guards, and the validators called directly: none reads the
\* configuration.
Guards(I) ==
    /\ Ready
    /\ \/ \E v \in I.values, t \in I.types : IsType(v, t)
       \/ \E v \in I.values : IsNotNone(v)
       \/ \E v \in I.values, t \in I.types : TypeValidate(v, t)
       \/ \E v \in I.values, lo \in I.bounds, hi \in I.bounds : RangeValidate(v, lo, hi)
       \/ \E v \in I.values, lo \in I.lengths, hi \in I.lengths, k \in I.lengths :
             LengthValidate(v, lo, hi, k)
       \/ \E v \in I.values, e \in I.must_exist, bf \in I.flags, bd \in I.flags :
             PathValidate(v, e, bf, bd)

Scopes ==
    \/ \E c \in CtxIds, ov \in Overrides : Construct(c, ov)
    \/ \E c \in CtxIds : Enter(c)
    \/ \E c \in CtxIds, exc \in BOOLEAN : Exit(c, exc)

\* The caller goes on after a call returned.
Proceed ==
    /\ ~pending
    /\ last.op # "none"
    /\ last' = NoCall
    /\ UNCHANGED <<heap, engineConfig, validatorsConfig, ctx, stack, hist, fs, pending, batch>>

\* The call sites: every first argument of up to MaxSuffixes postfix
\* operations, under each way of calling and of reading the line.
SuffixSeqs == UNION {[1..n -> {"attr", "sub", "call"}] : n \in 0..MaxSuffixes}

Args ==
    {NoArg}
    \cup {Expr("name", sfx, tail) : sfx \in SuffixSeqs, tail \in {"", "+1"}}
    \cup {Expr("const", <<>>, tail) : tail \in {"", "+1"}}

AllCallSites ==
    {NoSource, CallSite(FALSE, TRUE, "name", Ident)}
    \cup {CallSite(TRUE, parses, func, arg) :
             parses \in BOOLEAN, func \in {"name", "attr", "absent"}, arg \in Args}

\* A passing and a failing input per check, at every call site.
NameInputs ==
    [values |-> {NoneV, IntV(0), StrV(0, TRUE, ""), DictV({})},
     bounds |-> {IntV(1)}, lengths |-> {IntV(1)}, types |-> {Single("int")},
     keys |-> {OneKey("a")}, msgs |-> {NoMsg, Msg("Custom error message")},
     sites |-> AllCallSites, must_exist |-> {BoolV(1)}, flags |-> {FALSE}]

Extract == Ready /\ \E s \in AllCallSites : ExtractFromFrame(s)

\* An engine used through scoped overrides.
Next == Scopes \/ Ops(ScopeInputs) \/ Catch \/ Proceed

Spec == Init /\ [][Next]_vars

\* An engine called with every kind of input.
NextOps == Ops(AllInputs) \/ Guards(AllInputs) \/ Catch \/ Proceed

SpecOps == InitOps /\ [][NextOps]_vars

\* The resolver, called directly and through the engine, at every call site.
NextNames == Ops(NameInputs) \/ Extract \/ Catch \/ Proceed

SpecNames == Init /\ [][NextNames]_vars

\* The validations added to a batch: passing ones, failing ones, and one
\* that raises a built-in error.
BatchInputs ==
    [values |-> {NoneV, IntV(0), StrV(1, FALSE, "d")},
     bounds |-> {IntV(1)}, types |-> {Single("int"), NoType},
     msgs |-> {NoMsg, Msg("Custom error message")}, sites |-> {NoSource}]

Batch ==
    /\ Ready
    /\ \/ \E v \in BatchInputs.values, t \in BatchInputs.types, m \in BatchInputs.msgs,
             s \in BatchInputs.sites :
             AddValidation("assert_type", v, [NoKw EXCEPT !.expected_type = t], m, s, FALSE)
       \/ \E v \in BatchInputs.values, m \in BatchInputs.msgs, s \in BatchInputs.sites :
             AddValidation("assert_not_none", v, NoKw, m, s, FALSE)
       \/ \E v \in BatchInputs.values, lo \in BatchInputs.bounds, m \in BatchInputs.msgs,
             s \in BatchInputs.sites :
             AddValidation("assert_range", v, [NoKw EXCEPT !.min_val = lo], m, s, FALSE)
       \/ \E raise_on_error \in BOOLEAN : ValidateAll(raise_on_error)
       \/ GetErrors
       \/ ClearErrors

\* A BatchValidator used on its own.
NextBatch == Batch \/ Catch \/ Proceed

SpecBatch == Init /\ [][NextBatch]_vars

\* The data given to validate_dict_schema: mappings of some of the keys.
SchemaData ==
    UNION {[ks -> {IntV(0), StrV(1, FALSE, "d")}] : ks \in SUBSET Keys}

FieldSpecs ==
    {FieldSpec(k, t, r, v, dflt) :
        k \in Keys, t \in {NoType, Single("int")}, r \in BOOLEAN,
        v \in {"none", "rejects"}, dflt \in {NoneV, IntV(1)}}

\* The schemas: up to MaxFields entries, of distinct keys, in their order.
Schemas ==
    UNION {{s \in [1..n -> FieldSpecs] : \A i, j \in 1..n : i # j => s[i].key # s[j].key} :
           n \in 0..MaxFields}

Schema ==
    /\ Ready
    /\ \E data \in SchemaData, schema \in Schemas, strict \in BOOLEAN :
           ValidateDictSchema(data, schema, strict)

\* A SchemaValidator used on its own.
NextSchema == Schema \/ Catch \/ Proceed

SpecSchema == Init /\ [][NextSchema]_vars

\* The functions on a call stack: the caller's own, the module-level
\* wrappers and engine methods (internal names), and _get_variable_name.
FrameNames ==
    {"caller", "assert_type", "assert_path", "_assert_with_engine", "_validate_with_engine",
     "_get_variable_name"}

\* The call stacks: module code at the top, up to MaxFrames calls in any
\* order below it, then _find_original_caller_frame.
CallStacks ==
    UNION {{<<Frame("<module>", NoSource)>>
            \o [i \in 1..n |-> Frame(names[i], EngineLine)]
            \o <<Frame("_find_original_caller_frame", EngineLine)>> :
                names \in [1..n -> FrameNames]} :
           n \in 0..MaxFrames}

FindFrame ==
    /\ Ready
    /\ \E frames \in CallStacks : FindOriginalCallerFrame(frames)

NextFrames == FindFrame \/ Proceed

SpecFrames == Init /\ [][NextFrames]_vars

\* The range and length validators: validate and get_error_message called
\* directly, and through assert_range and assert_length.
Messages(I) ==
    /\ Ready
    /\ \/ \E v \in I.values, lo \in I.bounds, hi \in I.bounds : RangeValidate(v, lo, hi)
       \/ \E v \in I.values, lo \in I.bounds, hi \in I.bounds : RangeMessage(v, lo, hi)
       \/ \E v \in I.values, lo \in I.lengths, hi \in I.lengths, k \in I.lengths :
             LengthValidate(v, lo, hi, k)
       \/ \E v \in I.values, lo \in I.lengths, hi \in I.lengths, k \in I.lengths :
             LengthMessage(v, lo, hi, k)
       \/ \E v \in I.values, lo \in I.bounds, hi \in I.bounds, s \in I.sites :
             AssertRange(v, lo, hi, NoMsg, s)
       \/ \E v \in I.values, lo \in I.lengths, hi \in I.lengths, s \in I.sites :
             AssertLength(v, lo, hi, NoMsg, s)

NextMessages == Messages(AllInputs) \/ Catch \/ Proceed

SpecMessages == Init /\ [][NextMessages]_vars

\* Two threads using scoped overrides on one engine, interleaved freely.
NextThreads ==
    \E t \in Threads :
        \/ \E ov \in Overrides : ThreadConstruct(t, ov)
        \/ ThreadEnter(t)
        \/ ThreadExit(t)

SpecThreads == Init /\ [][NextThreads]_vars

\* The parameters of a wrapped function, in signature order: a, b, ...
ParamNames == <<"a", "b", "c">>

Signatures ==
    UNION {{[i \in 1..n |-> Param(ParamNames[i], h[i], v[i])] :
                h \in [1..n -> {NoType, Single("int"), Single("str")}],
                v \in [1..n -> {IntV(0), StrV(1, FALSE, "d")}]} :
           n \in 0..MaxParams}

Decorated ==
    /\ Ready
    /\ \E params \in Signatures : TypeChecked(params)

\* A decorated function called on its own.
NextDecorator == Decorated \/ Catch \/ Proceed

SpecDecorator == Init /\ [][NextDecorator]_vars

----------------------------------------------------------------------------
(* Scoped configuration override *)

\* c leaves its with-block in this step.
Exits(c) == ctx[c].status = "entered" /\ ctx'[c].status = "exited"

\* c enters its with-block in this step.
Enters(c) == ctx[c].status # "entered" /\ ctx'[c].status = "entered"

\* C1: after a scope is left, normally or through an exception, the engine's
\* active configuration is the one that was active immediately before the
\* scope was entered, whatever happened to the engine's configuration
\* between the construction of the context and its entry.
C1_ExitRestoresPreEntryConfig ==
    [][\A c \in CtxIds : Exits(c) => engineConfig' = hist[c].preEntry]_vars

\* C2: for two properly nested scopes, constructed in any order: while the
\* inner scope is active the configuration is the inner overrides merged
\* over the outer scope's installed configuration; after the inner scope
\* exits the outer scope's installed configuration is active again; after
\* the outer scope exits the pre-outer configuration is.
C2_NestedScopes ==
    [][/\ Len(stack') = 2
          => \A field \in ConfigFields :
                heap'[engineConfig'][field] =
                    IF field \in ctx'[stack'[2]].config_overrides.has
                    THEN ctx'[stack'[2]].config_overrides.val[field]
                    ELSE heap'[hist'[stack'[1]].installed][field]
       /\ (Len(stack) = 2 /\ Len(stack') = 1)
          => engineConfig' = hist[stack[1]].installed
       /\ (Len(stack) = 1 /\ Len(stack') = 0)
          => engineConfig' = hist[stack[1]].preEntry]_vars

\* C3: entering a scope installs a new configuration object in which every
\* field named in the overrides has the override value and every other
\* field the value of the captured configuration (original_config); no
\* step - entry, a validation inside the scope, exit - modifies an existing
\* configuration object.
C3_EnterInstallsNewConfigAndMutatesNone ==
    [][/\ \A c \in CtxIds :
             Enters(c) =>
                /\ engineConfig' \notin DOMAIN heap
                /\ engineConfig' \in DOMAIN heap'
                /\ \A field \in ConfigFields :
                      heap'[engineConfig'][field] =
                          IF field \in ctx[c].config_overrides.has
                          THEN ctx[c].config_overrides.val[field]
                          ELSE heap[ctx[c].original_config][field]
       /\ \A i \in DOMAIN heap : i \in DOMAIN heap' /\ heap'[i] = heap[i]]_vars

\* A scope that overrides some fields and keeps others was entered and
\* left, and a validation failed inside a second scope.
C3_Witness ==
    /\ ctx[1].status = "exited"
    /\ ctx[2].status = "entered"
    /\ ctx[2].config_overrides.has = {"raise_on_failure"}
    /\ heap[engineConfig] # heap[ctx[2].original_config]
    /\ last.res.outcome = "raised"

----------------------------------------------------------------------------
(* Engine operations *)

Called == last.op # "none"

Passed == last.res.outcome = "returned"

Failed == last.res.outcome = "raised"

\* The engine's active configuration
Active == heap[engineConfig]

\* The call omitted the expected type: a misuse of assert_type, not a
\* failing input.
NoExpectedType == last.op = "assert_type" /\ last.kw.expected_type.form = "none"

\* C4: whenever the active configuration has raise_on_failure = false, no
\* assert_* operation raises for any failing input (assert_not_none(None),
\* missing required keys and empty or unconvertible paths included).
C4_LenientNeverRaises ==
    (Called /\ ~Active.raise_on_failure /\ ~NoExpectedType) => Passed

\* v is an instance of the expected type, of at least one member of a list.
InstanceOf(v, expected_type) ==
    \E i \in DOMAIN expected_type.types : expected_type.types[i] \in Mro(v.t)

\* C5 as claimed: assert_type(v, T) returns v unchanged if and only if v is
\* an instance of T, and raises in every other case.
C5_AssertTypeReturnsIffInstance ==
    last.op = "assert_type" =>
        /\ (Passed /\ last.res.ret = last.value)
              <=> InstanceOf(last.value, last.kw.expected_type)
        /\ ~InstanceOf(last.value, last.kw.expected_type) => Failed

\* C5 amended: when the active configuration has raise_on_failure = true,
\* assert_type(v, T) returns v unchanged if and only if v is an instance of
\* T and raises in every other case; when raise_on_failure = false it
\* returns v unchanged whenever an expected type is given.
C5_AssertTypeReturnsIffInstanceWhenRaising ==
    last.op = "assert_type" =>
        /\ Active.raise_on_failure =>
              /\ (Passed /\ last.res.ret = last.value)
                    <=> InstanceOf(last.value, last.kw.expected_type)
              /\ ~InstanceOf(last.value, last.kw.expected_type) => Failed
        /\ (~Active.raise_on_failure /\ ~NoExpectedType)
              => (Passed /\ last.res.ret = last.value)

\* assert_type accepted a value that matches the second member of a list
\* of types only, under a raising configuration.
C5_Witness ==
    /\ last.op = "assert_type"
    /\ Active.raise_on_failure
    /\ last.kw.expected_type = ListOf(<<"int", "str">>)
    /\ last.value.t = "str"
    /\ Passed
    /\ last.res.ret = last.value

\* The innermost open scope
Top == stack[Len(stack)]

\* C6: every error raised for a failing value is an instance of the active
\* configuration's custom_error_class: inside a scope that overrides
\* custom_error_class the overriding class is raised, and after the scope
\* exits the class configured before it is raised again.
C6_RaisesActiveErrorClass ==
    (Failed /\ last.res.check # "builtin") =>
        /\ last.res.cls = Active.custom_error_class
        /\ (stack # <<>> /\ "custom_error_class" \in ctx[Top].config_overrides.has)
              => last.res.cls = ctx[Top].config_overrides.val.custom_error_class
        /\ \A c \in CtxIds :
              (stack = <<>> /\ ctx[c].status = "exited" /\ engineConfig = ctx[c].original_config)
                 => last.res.cls = heap[hist[c].preEntry].custom_error_class

\* C6, first part alone: the class raised is the custom_error_class of the
\* configuration active at the raise.
RaisesActiveErrorClass ==
    (Failed /\ last.res.check # "builtin") => last.res.cls = Active.custom_error_class

\* C7: a caller-supplied failure message (any string, the empty one
\* included) is the message of the error raised, never the generated one.
C7_CustomMessageWins ==
    (Failed /\ last.res.check # "builtin" /\ last.msg.given) =>
        (last.res.message.custom /\ last.res.message.text = last.msg.text)

Composite == {"assert_numeric", "assert_string_like", "assert_sequence", "assert_mapping"}

\* The type constraint of a composite assertion
CompositeTypes(op) ==
    CASE op = "assert_numeric" -> {"int", "float"}
      [] op = "assert_string_like" -> {"str", "bytes"}
      [] op = "assert_sequence" -> {"list", "tuple"}
      [] op = "assert_mapping" -> {"dict"}

\* C8: in a composite assertion the type check comes before the secondary
\* check: a value that violates the type constraint produces the type
\* failure, never a failure of the range, length or required-key check.
C8_TypeFailureFirst ==
    (last.op \in Composite /\ Failed /\ Mro(last.value.t) \cap CompositeTypes(last.op) = {})
        => last.res.check = "type"

\* C8 under raise_on_failure = true alone: a composite assertion given a
\* value of the wrong type raises the type failure.
TypeFailureFirstWhenRaising ==
    (/\ last.op \in Composite
     /\ Active.raise_on_failure
     /\ Mro(last.value.t) \cap CompositeTypes(last.op) = {})
        => (Failed /\ last.res.check = "type")

\* lo <= v, for numbers or an absent bound
AtLeast(v, lo) == lo = NoneV \/ (~v.nan /\ ~lo.nan /\ lo.n <= v.n)

\* v <= hi, for numbers or an absent bound
AtMost(v, hi) == hi = NoneV \/ (~v.nan /\ ~hi.nan /\ v.n <= hi.n)

\* The bound is not violated: absent, satisfied inclusively, or unordered
\* with v because one of the two is NaN.
NotBelow(v, lo) == lo = NoneV \/ v.nan \/ lo.nan \/ lo.n <= v.n

NotAbove(v, hi) == hi = NoneV \/ v.nan \/ hi.nan \/ v.n <= hi.n

RangeOps == {"assert_numeric", "assert_range"}

C10_ExactLengthIgnoresMinMax ==
    (/\ last.op = "assert_sequence"
     /\ Active.raise_on_failure
     /\ last.value.t \in {"list", "tuple"}
     /\ last.kw.length # NoneV)
        => (Passed <=> last.value.n = last.kw.length.n)

----------------------------------------------------------------------------
(* Required keys, None, paths *)

\* The keys of K that are not in the dict d, in the order of K.
AbsentKeys(K, d) == SelectSeq(K, LAMBDA k : k \notin d.keys)

\* C11: for a dict d and required keys K (one key or a list), called without
\* msg, assert_mapping(d, K) returns d when every key of K is in d;
\* otherwise it raises the configured error class with a message naming
\* exactly the keys of K absent from d, in K's order - the singular wording
\* for one missing key, the list wording for more.
C11_MappingNamesMissingKeys ==
    (/\ last.op = "assert_mapping"
     /\ last.value.t = "dict"
     /\ last.kw.required_keys.form # "none"
     /\ ~last.msg.given)
        => LET K == last.kw.required_keys.keys
               absent == AbsentKeys(K, last.value)
           IN  IF absent = <<>>
               THEN Passed /\ last.res.ret = last.value
               ELSE /\ Failed
                    /\ last.res.cls = Active.custom_error_class
                    /\ last.res.check = "required_keys"
                    /\ last.res.message.keys = absent
                    /\ last.res.message.tmpl =
                          IF Len(absent) = 1 THEN "missing required key"
                          ELSE "missing required keys"

\* assert_mapping({}, ["b", "a"]) raised naming b then a, and
\* assert_mapping({"a": ...}, ["a", "b"]) would name b alone.
C11_Witness ==
    /\ last.op = "assert_mapping"
    /\ last.value = DictV({})
    /\ last.kw.required_keys = KeyList(<<"b", "a">>)
    /\ ~last.msg.given
    /\ Failed
    /\ last.res.message.keys = <<"b", "a">>
    /\ last.res.message.tmpl = "missing required keys"

\* C12: assert_not_none(v) raises if and only if v is None; every other
\* value - 0, False and the empty string included - is returned unchanged.
C12_NotNoneRaisesIffNone ==
    last.op = "assert_not_none" =>
        /\ Failed <=> last.value = NoneV
        /\ last.value # NoneV => (Passed /\ last.res.ret = last.value)
        /\ Failed => (last.res.check = "not_none" /\ last.res.cls = Active.custom_error_class)

\* assert_not_none(False) returned False.
C12_Witness ==
    /\ last.op = "assert_not_none"
    /\ last.value = BoolV(0)
    /\ Passed
    /\ last.res.ret = BoolV(0)

\* C13: assert_path on an empty or whitespace-only str raises the "cannot
\* be an empty path" failure for every combination of must_exist,
\* must_be_file, must_be_dir and create_parents, under every configuration,
\* with the filesystem left as it was (no parent directory created) and
\* without consulting the path validator.
C13_EmptyPathRaisesFirst ==
    [][(/\ last'.op = "assert_path"
        /\ last'.value.t = "str"
        /\ last'.value.blank)
          => /\ last'.res.outcome = "raised"
             /\ last'.res.check = "path_empty"
             /\ last'.res.cls = heap[engineConfig].custom_error_class
             /\ ~Truthy(last'.msg) => last'.res.message.tmpl = "cannot be an empty path"
             /\ last'.res.resolved = 1
             /\ fs' = fs]_vars

\* assert_path("  ", must_exist=False, create_parents=True) raised the
\* empty-path failure.
C13_Witness ==
    /\ last.op = "assert_path"
    /\ last.value = StrV(2, TRUE, "  ")
    /\ last.kw.must_exist = BoolV(0)
    /\ last.kw.create_parents
    /\ Failed
    /\ last.res.check = "path_empty"

\* What the flags ask of a path p on the filesystem f.
PathOk(f, p, kw) ==
    /\ kw.must_exist = BoolV(1) => Kind(f, p) # "absent"
    /\ kw.must_exist = BoolV(0) => Kind(f, p) = "absent"
    /\ kw.must_be_file => Kind(f, p) = "file"
    /\ kw.must_be_dir => Kind(f, p) = "dir"

\* The value names a path: a Path object or a non-empty str.
NamesPath(v) == v.t = "Path" \/ (v.t = "str" /\ ~v.blank)

\* C14: for every path p and filesystem state (p absent, a file, a
\* directory) the path check passes if and only if must_exist=True implies
\* p exists, must_exist=False implies p does not exist, must_be_file implies
\* p is an existing file and must_be_dir implies p is an existing directory;
\* with must_exist unset and both flags false it passes either way.  Stated
\* of PathValidator.validate, and of assert_path under raise_on_failure =
\* true when it gets as far as the validator.
C14_PathCheck ==
    /\ (last.op = "PathValidator.validate" /\ NamesPath(last.value))
          => /\ Passed
             /\ last.res.ret = BoolV(1) <=> PathOk(fs, ToPath(last.value).path, last.kw)
             /\ (last.kw.must_exist = NoneV /\ ~last.kw.must_be_file /\ ~last.kw.must_be_dir)
                   => last.res.ret = BoolV(1)
    /\ (/\ last.op = "assert_path"
        /\ NamesPath(last.value)
        /\ Active.raise_on_failure
        /\ last.res.check # "path_mkdir")
          => /\ Passed <=> PathOk(fs, ToPath(last.value).path, last.kw)
             /\ Passed => last.res.ret = ToPath(last.value)
             /\ Failed => last.res.check = "path"

\* The validator rejected an existing directory that must not exist, and
\* would accept it with must_be_dir alone.
C14_Witness ==
    /\ last.op = "PathValidator.validate"
    /\ last.value = PathV("d")
    /\ Kind(fs, "d") = "dir"
    /\ last.kw.must_exist = BoolV(0)
    /\ last.kw.must_be_dir
    /\ last.res.ret = BoolV(0)

----------------------------------------------------------------------------
(* Guards, misuse, idempotence *)

\* An expected type assert_type accepts: a single type or a list of types.
Accepted(expected_type) == expected_type.form \in {"class", "list"}

\* C15: is_type and is_not_none never raise, under any configuration:
\* is_type(v, T) returns a bool for every v and every T accepted by
\* assert_type (a single type or a list of types), is_not_none(v) returns a
\* bool for every v.
C15_GuardsNeverRaise ==
    /\ (last.op = "is_type" /\ Accepted(last.kw.expected_type))
          => (Passed /\ last.res.ret.t = "bool")
    /\ last.op = "is_not_none" => (Passed /\ last.res.ret.t = "bool")

\* is_type(v, T) for a single type T is isinstance(v, T), and is_not_none(v)
\* is `v is not None`; neither raises.
GuardsOnSingleType ==
    /\ (last.op = "is_type" /\ last.kw.expected_type.form = "class")
          => (Passed /\ (last.res.ret = BoolV(1) <=> InstanceOf(last.value, last.kw.expected_type)))
    /\ last.op = "is_not_none"
          => (Passed /\ (last.res.ret = BoolV(1) <=> last.value # NoneV))

\* The type validator was called without an expected type.
TypeValidatorMisused ==
    last.op \in {"assert_type", "TypeValidator.validate"} /\ last.kw.expected_type.form = "none"

Again(op, value, oserror) == Run(op, Eng, fs, value, last.kw, last.msg, last.src, oserror)

\* C17: an assert_* operation that returns, returns the value it was given
\* without coercion - assert_path returns a Path object, the one it was
\* given if it was given one - and the same assertion applied to the result
\* returns an equal value and leaves the filesystem as it is.
C17_AssertIdempotent ==
    (last.op \in AssertOps /\ Passed) =>
        /\ last.op # "assert_path" => last.res.ret = last.value
        /\ last.op = "assert_path" =>
              /\ last.res.ret.t = "Path"
              /\ last.value.t = "Path" => last.res.ret = last.value
        /\ \A oserror \in BOOLEAN :
              /\ Again(last.op, last.res.ret, oserror).outcome = "returned"
              /\ Again(last.op, last.res.ret, oserror).ret = last.res.ret
              /\ last.op = "assert_path"
                    => assert_path_fs(fs, last.res.ret, last.kw, oserror) = fs

\* assert_path with create_parents returned a str converted to a Path, its
\* parent directory in place.
C17_Witness ==
    /\ last.op = "assert_path"
    /\ last.value = StrV(3, FALSE, "d/f")
    /\ last.kw.create_parents
    /\ last.kw.must_exist = BoolV(0)
    /\ Passed
    /\ last.res.ret = PathV("d/f")
    /\ Kind(fs, "d") = "dir"

----------------------------------------------------------------------------
(* Subject names *)

\* The engine with name extraction switched off.
Unnamed(eng) ==
    [config |-> [eng.config EXCEPT !.auto_extract_names = FALSE],
     vconfig |-> [eng.vconfig EXCEPT !.auto_extract_names = FALSE]]

\* Two outcomes that differ in the message at most.
SameOutcome(r, q) ==
    r.outcome = q.outcome /\ r.ret = q.ret /\ r.cls = q.cls /\ r.check = q.check

\* C18: whether an engine operation returns or raises, the value returned
\* and the class of the error raised do not depend on what the subject-name
\* resolver produces nor on auto_extract_names: every call, at whatever
\* call site and under either setting, has the outcome of the same call
\* made with name extraction off and no source line available; the message
\* alone may differ.
C18_NameNeverChangesOutcome ==
    [][last'.op \in AssertOps =>
          \E oserror \in BOOLEAN :
             /\ last'.res = Run(last'.op, Eng, fs, last'.value, last'.kw, last'.msg,
                                last'.src, oserror)
             /\ SameOutcome(last'.res,
                            Run(last'.op, Unnamed(Eng), fs, last'.value, last'.kw, last'.msg,
                                NoSource, oserror))]_vars

\* A failing assert_type called by name on an identifier, its source line
\* available and name extraction on, raised with a generated message.
C18_Witness ==
    /\ last.op = "assert_type"
    /\ last.src = CallSite(TRUE, TRUE, "name", Ident)
    /\ Active.auto_extract_names
    /\ Failed
    /\ ~last.res.message.custom
    /\ last.res.resolved = 1

\* The first argument as written
RECURSIVE SuffixesText(_)
SuffixesText(suffixes) ==
    IF suffixes = <<>> THEN "" ELSE SuffixText(Head(suffixes)) \o SuffixesText(Tail(suffixes))

SourceText(arg) == RootText(arg.root) \o SuffixesText(arg.suffixes) \o arg.tail

\* The first argument is an identifier followed by attribute accesses,
\* subscripts and calls: the forms a subject name is taken from.
Nameable(arg) == arg.root = "name" /\ arg.tail = ""

\* Its textual forms: as written, or with subscripts and calls abbreviated.
TextualForms(arg) == {SourceText(arg), AstName(arg.root, arg.suffixes)}

\* C19: the result of subject-name resolution on a call-site source line is
\* the textual form of the first argument of a known validation call (an
\* identifier, a dotted path, expr[...] or name(...)) or the literal
\* "value"; when the source line is unavailable or the first argument has
\* none of those forms it is exactly "value".
C19_NameIsArgumentOrValue ==
    last.op = "extract_from_frame" =>
        LET name == last.res.ret.path
            arg == last.src.arg
        IN  /\ Passed
            /\ name = "value"
                  \/ (last.src.available /\ Nameable(arg) /\ name \in TextualForms(arg))
            /\ (~last.src.available \/ ~Nameable(arg)) => name = "value"

\* Resolution through the engine: _find_original_caller_frame stops at the
\* frame of _get_variable_name, so every generated message names "value".
EngineAlwaysNamesValue ==
    (last.op \in AssertOps /\ Failed /\ last.res.check # "builtin" /\ ~last.res.message.custom)
        => last.res.message.name = "value"

----------------------------------------------------------------------------
(* Values without a length *)

\* len(v) raises TypeError.
HasNoLength(v) == v.t \in {"NoneType", "int", "bool", "float", "Path"}

\* C20: a length check on a value that has no length is an ordinary
\* validation failure: LengthValidator.validate returns False without
\* raising, the generated message is the "must have a length" one, and
\* assert_length raises the configured error class, and nothing else, when
\* raise_on_failure is true (and returns the value when it is false).
C20_NoLengthIsValidationFailure ==
    /\ (last.op = "LengthValidator.validate" /\ HasNoLength(last.value))
          => (Passed /\ last.res.ret = BoolV(0))
    /\ (last.op = "assert_length" /\ HasNoLength(last.value) /\ Active.raise_on_failure)
          => /\ Failed
             /\ last.res.cls = Active.custom_error_class
             /\ last.res.check = "length"
             /\ ~Truthy(last.msg) => last.res.message.tmpl = "must have a length"
    /\ (last.op = "assert_length" /\ HasNoLength(last.value) /\ ~Active.raise_on_failure)
          => (Passed /\ last.res.ret = last.value)

\* assert_length(1, ...) raised the configured class with the "must have a
\* length" message.
C20_Witness ==
    /\ last.op = "assert_length"
    /\ last.value = IntV(1)
    /\ Active.raise_on_failure
    /\ Failed
    /\ last.res.cls = Active.custom_error_class
    /\ last.res.message.tmpl = "must have a length"

----------------------------------------------------------------------------
(* BatchValidator *)

\* The texts of the calls of the history that raised, in call order.
RECURSIVE FailureTexts(_)
FailureTexts(log) ==
    IF log = <<>> THEN <<>>
    ELSE IF log[1].outcome = "raised" THEN <<ErrorText(log[1])>> \o FailureTexts(Tail(log))
    ELSE FailureTexts(Tail(log))

BatchOps == {"add_validation", "validate_all", "get_errors", "clear_errors"}

\* C21: add_validation never raises whatever the validation does; after any
\* sequence of add_validation, validate_all, get_errors and clear_errors
\* the error list is exactly the failure texts of the add_validation calls
\* that failed since the last clear_errors, in call order; only
\* validate_all(raise_on_error=True) raises, exactly when the list is not
\* empty, and validate_all returns true exactly when it is empty.
C21_BatchCollectsFailures ==
    /\ batch.errors = FailureTexts(batch.log)
    /\ (last.op \in BatchOps /\ Failed)
          => (last.op = "validate_all" /\ last.value = BoolV(1) /\ batch.errors # <<>>
              /\ last.res.cls = Active.custom_error_class)
    /\ (last.op = "validate_all" /\ last.value = BoolV(1) /\ batch.errors # <<>>) => Failed
    /\ (last.op = "validate_all" /\ Passed)
          => (last.res.ret = BoolV(1) <=> batch.errors = <<>>)
    /\ (last.op = "get_errors" /\ Passed) => last.res.ret = ListV(Len(batch.errors))

\* validate_all(raise_on_error=False) returned False on a batch holding two
\* different failure texts, the first that of a built-in error.
C21_Witness ==
    /\ last.op = "validate_all"
    /\ last.value = BoolV(0)
    /\ Passed
    /\ last.res.ret = BoolV(0)
    /\ Len(batch.log) = 2
    /\ Len(batch.errors) = 2
    /\ batch.errors[1] # batch.errors[2]
    /\ batch.errors[1].tmpl = "ValueError"

----------------------------------------------------------------------------
(* SchemaValidator *)

\* The required fields of the schema that the data lacks, by position.
MissingRequired(data, schema) ==
    {i \in 1..Len(schema) : schema[i].required /\ schema[i].key \notin DOMAIN data}

Min(S) == CHOOSE i \in S : \A j \in S : i <= j

Range(s) == {s[i] : i \in 1..Len(s)}

\* C22: validate_dict_schema on a mapping returns a new mapping, leaving
\* the input mapping unchanged, or raises; a missing required field raises,
\* and the missing-field error is that of the first such field in schema
\* order; with strict=True keys of the data outside the schema raise, and
\* the unexpected-keys error is a single one listing all of them.
C22_SchemaReturnsNewOrRaises ==
    last.op = "validate_dict_schema" =>
        LET missing == MissingRequired(last.data, last.schema)
            extra == DOMAIN last.data \ SchemaKeys(last.schema)
        IN  /\ last.after = last.data
            /\ Passed => /\ DOMAIN last.result \subseteq SchemaKeys(last.schema)
                         /\ last.res.ret = DictV(DOMAIN last.result)
            /\ missing # {} => Failed
            /\ (Failed /\ last.res.check = "required")
                  => /\ missing # {}
                     /\ last.res.message.name = last.schema[Min(missing)].key
            /\ (last.strict /\ extra # {}) => Failed
            /\ (Failed /\ last.res.check = "extra")
                  => /\ last.strict
                     /\ Range(last.res.message.keys) = extra
                     /\ Len(last.res.message.keys) = Cardinality(extra)

\* A strict validation against a schema that knows neither key of the data
\* raised the unexpected-keys error, the mapping check having passed.
C22_Witness ==
    /\ last.op = "validate_dict_schema"
    /\ Failed
    /\ last.res.check = "extra"
    /\ Cardinality(DOMAIN last.data) = 2
    /\ Len(last.res.message.keys) = 2

----------------------------------------------------------------------------
(* TypeValidationDecorator *)

\* The annotated parameters whose value is not of the declared type.
FailingParams(params) ==
    {i \in 1..Len(params) :
        /\ params[i].hint.form # "none"
        /\ ~AnyInstance(params[i].value, params[i].hint.types)}

\* C23: on every call of a function wrapped by type_checked, if any
\* annotated parameter fails its declared type the function is not invoked
\* and the error names the first failing parameter, in signature order, by
\* its parameter name; the function is invoked, with the original
\* arguments, only when every annotated parameter passed.
C23_DecoratorChecksBeforeCall ==
    last.op = "type_checked" =>
        LET failing == FailingParams(last.params) IN
        /\ failing # {}
              => /\ ~last.invoked
                 /\ Failed
                 /\ last.res.message.name = last.params[Min(failing)].name
        /\ last.invoked
              => /\ failing = {}
                 /\ last.args = [i \in 1..Len(last.params) |-> last.params[i].value]

\* When the engine raises TypeAssertionError on failure, as the default
\* one does, the wrapper behaves as described.
DecoratorOnDefaultErrors ==
    (Active.raise_on_failure /\ Active.custom_error_class = "TypeAssertionError")
        => C23_DecoratorChecksBeforeCall

----------------------------------------------------------------------------
(* Two threads on one engine *)

\* Both threads have left their scopes.
BothExited == \A t \in Threads : ctx[t].status = "exited"

\* C24: scoped overrides on an engine shared by two threads are not safe.
\* Once both threads have constructed, entered and exited their own scope,
\* the active configuration is the one a thread captured at construction,
\* and it is not the engine's initial one exactly in the interleavings
\* where the thread that exits last constructed its context while the
\* other thread's scope was active: it then "restores" that scope's
\* configuration (C24_Witness is such an interleaving).
C24_SharedEngineKeepsForeignConfig ==
    BothExited =>
        /\ \E t \in Threads : engineConfig = ctx[t].original_config
        /\ engineConfig # 1
              => \E t, u \in Threads :
                    /\ t # u
                    /\ engineConfig = ctx[t].original_config
                    /\ engineConfig = hist[u].installed

\* Both scopes have been exited and the engine's active configuration is
\* not the one it had before either scope was created.
C24_Witness ==
    /\ BothExited
    /\ stack = <<>>
    /\ engineConfig # 1
    /\ heap[engineConfig] # heap[1]

----------------------------------------------------------------------------
(* Failure messages of the range and length validators *)

\* What describes the first violated constraint: for a range the minimum,
\* then the maximum; for a length the exact length, then the minimum, then
\* the maximum (a value that has no length violates having one).
FirstViolatedRange(value, kw) ==
    IF kw.min_val # NoneV /\ Lt(value, kw.min_val) THEN "must be >="
    ELSE IF kw.max_val # NoneV /\ Gt(value, kw.max_val) THEN "must be <="
    ELSE "none"

FirstViolatedLength(value, kw) ==
    IF value.t \notin Sized THEN "must have a length"
    ELSE IF kw.length # NoneV /\ value.n # kw.length.n THEN "must have length ="
    ELSE IF kw.min_len # NoneV /\ value.n < kw.min_len.n THEN "must have length >="
    ELSE IF kw.max_len # NoneV /\ value.n > kw.max_len.n THEN "must have length <="
    ELSE "none"

\* The message of the last call: the one get_error_message returned, or the
\* generated one of the error that the range or length check raised.
RangeMessageGiven ==
    \/ last.op = "RangeValidator.get_error_message" /\ Passed
    \/ last.op = "assert_range" /\ Failed /\ last.res.check = "range"

LengthMessageGiven ==
    \/ last.op = "LengthValidator.get_error_message" /\ Passed
    \/ last.op = "assert_length" /\ Failed /\ last.res.check = "length"

\* C25: for the range and length validators, whenever validate returns
\* false the failure message describes the first violated constraint in the
\* fixed order (length: exact, then min, then max; range: min, then max),
\* and the generic messages "is out of valid range" and "has invalid
\* length" are produced only for inputs on which validate returns true.
C25_MessageNamesFirstViolation ==
    /\ RangeMessageGiven
          => LET valid == RangeValidator_validate(last.value, last.kw) IN
             /\ valid = Ok(FALSE)
                   => last.res.message.tmpl = FirstViolatedRange(last.value, last.kw)
             /\ last.res.message.tmpl = "is out of valid range" => valid = Ok(TRUE)
    /\ LengthMessageGiven
          => LET valid == LengthValidator_validate(last.value, last.kw) IN
             /\ valid = Ok(FALSE)
                   => last.res.message.tmpl = FirstViolatedLength(last.value, last.kw)
             /\ last.res.message.tmpl = "has invalid length" => valid = Ok(TRUE)
    /\ (last.op = "RangeValidator.validate" /\ Passed)
          => (last.res.ret = BoolV(0) <=> FirstViolatedRange(last.value, last.kw) # "none")
    /\ (last.op = "LengthValidator.validate" /\ Passed)
          => (last.res.ret = BoolV(0) <=> FirstViolatedLength(last.value, last.kw) # "none")

\* The length message was asked for a value that violates the exact length,
\* the minimum and the maximum at once, and names the exact length.
C25_Witness ==
    /\ last.op = "LengthValidator.get_error_message"
    /\ Passed
    /\ last.kw.length # NoneV /\ last.value.n # last.kw.length.n
    /\ last.kw.min_len # NoneV /\ last.value.n < last.kw.min_len.n
    /\ last.kw.max_len # NoneV /\ last.value.n > last.kw.max_len.n
    /\ last.value.t \in Sized
    /\ last.res.message.tmpl = "must have length ="

----------------------------------------------------------------------------
(* The validators' configuration *)

\* C26: in every reachable state of an engine, inside a scoped override and
\* after it is restored included, the configuration referenced by each of
\* the four registered validators is the engine's active configuration.
C26_ValidatorsShareActiveConfig == validatorsConfig = engineConfig

\* What the validators reference is the configuration the engine was
\* constructed with, whatever is active.
ValidatorsKeepConstructionConfig == validatorsConfig = 1

----------------------------------------------------------------------------
(* When the subject name is resolved *)

\* The last call was an assert_* call that raised a validation failure (an
\* error of the active error class, not a built-in TypeError or ValueError).
ValidationFailed == last.op \in AssertOps /\ Failed /\ last.res.check # "builtin"

\* C27: the subject name is resolved only on failure and at most once per
\* call: an assert_* call whose value passes every check never invokes the
\* caller-context resolver, and a failing call invokes it exactly once.
C27_NameResolvedOnlyOnFailure ==
    /\ (last.op \in AssertOps /\ Passed) => last.res.resolved = 0
    /\ ValidationFailed => last.res.resolved = 1

\* Outside assert_path and assert_mapping with required keys, the resolver
\* runs exactly when a validation failure is raised, once.
NameResolvedOnlyOnFailureElsewhere ==
    (/\ last.op \in AssertOps \ {"assert_path"}
     /\ ~(last.op = "assert_mapping" /\ last.kw.required_keys.form # "none"))
        => C27_NameResolvedOnlyOnFailure

----------------------------------------------------------------------------
(* The frame the resolver chooses *)

\* The frames between the frame at position i and the resolver's own.
Between(frames, i) == (i + 1)..(Len(frames) - 1)

----------------------------------------------------------------------------
(* The secondary checks *)

\* The operations that check a type and then something else, and the types
\* their first check accepts.
TwoStepOps == {"assert_numeric", "assert_string_like", "assert_sequence", "assert_mapping"}

FirstCheckTypes(op) ==
    CASE op = "assert_numeric" -> <<"int", "float">>
      [] op = "assert_string_like" -> <<"str", "bytes">>
      [] op = "assert_sequence" -> <<"list", "tuple">>
      [] op = "assert_mapping" -> <<"dict">>

\* The last call's value failed the type check of its operation.
FailedTypeCheck == last.op \in TwoStepOps /\ ~AnyInstance(last.value, FirstCheckTypes(last.op))

\* The error of the last call comes from a secondary check: a range, length
\* or required-keys failure, or the built-in error of a comparison or a
\* membership test on a value that does not support it.
RaisedBySecondaryCheck ==
    Failed /\ last.res.check \in {"range", "length", "required_keys", "builtin"}

\* C29: in assert_numeric, assert_string_like, assert_sequence and
\* assert_mapping, under every configuration, the secondary check (range
\* comparison, length check, required-key membership test) is executed only
\* on values that passed the preceding type check: a value that failed the
\* type check never reaches it, so no error of a call on such a value comes
\* from the secondary check.
C29_SecondaryCheckOnlyAfterTypeCheck == FailedTypeCheck => ~RaisedBySecondaryCheck

\* When failures raise, a value that fails the type check stops there.
TypeFailureStopsWhenRaising ==
    Active.raise_on_failure => C29_SecondaryCheckOnlyAfterTypeCheck

----------------------------------------------------------------------------
(* assert_path and the filesystem *)

\* This step is an assert_path call.
CallsAssertPath == last.op = "none" /\ last'.op = "assert_path"

\* C30: an assert_path call that ends in a raised validation failure leaves
\* the filesystem unchanged: parent directories are created only by calls
\* made with create_parents=True that go on to return a path, never by a
\* call whose existence or kind check then fails.
C30_FailedPathLeavesFilesystem ==
    [][(CallsAssertPath /\ last'.res.outcome = "raised") => fs' = fs]_vars

\* Only assert_path with create_parents=True changes the filesystem, and
\* only by making the missing parent of the path a directory.
OnlyCreateParentsChangesFilesystem ==
    [][fs' # fs
          => /\ CallsAssertPath
             /\ last'.kw.create_parents
             /\ fs' = Mkdir(fs, Parent(ToPath(last'.value).path))]_vars

====
